---------------------------- MODULE Spec2Model ----------------------------
(***************************************************************************)
(* A model of package-sync (src/package-sync.py): the connectivity-aware   *)
(* update orchestrator update_all_packages and the reconciler              *)
(* sync_packages, with the helpers they call.                              *)
(*                                                                         *)
(* Python redefines several functions in the file; the definition that is  *)
(* in force when main() runs is the last one, so update_packages is the    *)
(* one at lines 631-676, update_all_packages the one at lines 679-765,     *)
(* install_package / remove_package the ones at lines 571-628.             *)
(*                                                                         *)
(* Latencies are whole milliseconds; int(latency / 10) is then the integer *)
(* division latency \div 10.  An Optional value is a sequence of length at *)
(* most one: None is <<>> and a value x is <<x>>.                          *)
(***************************************************************************)
EXTENDS Integers, Sequences, FiniteSets, TLC

VARIABLES
    \* ---- update_all_packages ----
    pc,                \* position inside update_all_packages
    present,           \* the backends whose executable shutil.which finds
    latency,           \* Optional latency of the initial probe
    new_latency,       \* Optional latency of the re-probe
    base_timeout,      \* seconds
    retry_timeout,     \* seconds
    idx,               \* position of the running loop in its list
    results,           \* dict pkg_type -> success, in insertion order
    timeout_failures,  \* list of pkg_types that timed out in the first pass
    ret,               \* Optional return value of update_all_packages
    summary,           \* Optional list of names printed as "Failed updates"
    calls,             \* history of the external calls made, in order
    \* ---- sync_packages ----
    config,            \* the Registry as stored in the file at CONFIG_PATH
    machine_name,      \* Optional: the machine_name of the last sync call
    make_primary,      \* its make_primary flag
    current_packages,  \* the snapshot get_all_packages took when it began
    installed,         \* what is installed on that machine when it ends
    actions,           \* the install/remove calls it made, in order
    changes_made,      \* its changes_made flag
    side_effects,      \* the packages its commands dragged along
    sync_status,       \* "none", or how it ended: "recorded" (early return
                       \* of line 821), "synced" (line 856), "raised"
    syncs,             \* the number of sync_packages calls made so far
    \* ---- check_internet_connection on its own ----
    pinged,            \* what the ping of each host does
    probe,             \* Optional <<is_connected, best_latency>> returned
    \* ---- load_config on its own ----
    config_file,       \* the file at CONFIG_PATH
    backup_file,       \* the file at CONFIG_PATH.with_suffix(".json.bak")
    loaded             \* how load_config ended and the dict it returned

update_vars == <<pc, present, latency, new_latency, base_timeout, retry_timeout,
                 idx, results, timeout_failures, ret, summary, calls>>

sync_vars == <<config, machine_name, make_primary, current_packages, installed,
               actions, changes_made, side_effects, sync_status, syncs>>

probe_vars == <<pinged, probe>>

load_vars == <<config_file, backup_file, loaded>>

vars == <<update_vars, sync_vars, probe_vars, load_vars>>

-----------------------------------------------------------------------------
(* Bounds and sampled inputs *)

\* Round-trip times a ping may report, in ms: below and above the 600 ms
\* point where the 60 s floor stops applying, not a multiple of 10, around the
\* 1000 ms retry threshold, and more than double each other.
Latencies == {500, 605, 999, 1000, 2000}

None == <<>>
Some(x) == <<x>>
Val(o) == o[1]

Max(a, b) == IF a >= b THEN a ELSE b

-----------------------------------------------------------------------------
(* check_internet_connection *)

\* The three default hosts.
hosts == <<"8.8.8.8", "1.1.1.1", "208.67.222.222">>

\* What one ping can do: raise SubprocessError, exit non-zero, exit 0 with an
\* output whose time cannot be parsed, or exit 0 with a parsed time.
PingResults ==
    {[status |-> s, time |-> 0] : s \in {"error", "nonzero", "unparseable"}}
    \cup {[status |-> "ok", time |-> t] : t \in Latencies}

RECURSIVE best_latency_from(_, _, _)
best_latency_from(pings, i, best_latency) ==
    IF i > Len(pings) THEN best_latency
    ELSE LET p == pings[i]
         IN  IF p.status = "ok"
                /\ (best_latency = None \/ p.time < Val(best_latency))
             THEN best_latency_from(pings, i + 1, Some(p.time))
             ELSE best_latency_from(pings, i + 1, best_latency)

\* Line 69, "return best_latency is not None, best_latency".
check_internet_connection_any_response(pings) ==
    LET best_latency == best_latency_from(pings, 1, None)
    IN  <<\E i \in 1..Len(pings) : pings[i].status \in {"ok", "unparseable"},
          best_latency>>

\* Returns <<is_connected, best_latency>>.
check_internet_connection(pings) ==
    LET best_latency == best_latency_from(pings, 1, None)
    IN  <<best_latency # None, best_latency>>

AllPings == [1..Len(hosts) -> PingResults]

\* One call check_internet_connection() with the default hosts, whose pings
\* do what pinged says.
CheckInternetConnection ==
    /\ probe = None
    /\ probe' = Some(check_internet_connection(pinged))
    /\ UNCHANGED <<pinged, update_vars, sync_vars, load_vars>>

-----------------------------------------------------------------------------
(* update_packages *)

\* What the upgrade subprocess can do: exit 0, exit non-zero, exceed the
\* timeout (TimeoutExpired), or raise another exception.
UpgradeOutcomes == {"exit0", "nonzero", "timeout", "exception"}

update_packages_timeout_as_any_failure(outcome) ==
    CASE outcome = "exit0" -> <<TRUE, FALSE>>
      [] OTHER -> <<FALSE, TRUE>>

\* Returns <<success, is_timeout>>.
update_packages(outcome) ==
    CASE outcome = "exit0" -> <<TRUE, FALSE>>
      [] outcome = "nonzero" -> <<FALSE, FALSE>>
      [] outcome = "timeout" -> <<FALSE, TRUE>>
      [] outcome = "exception" -> <<FALSE, FALSE>>

-----------------------------------------------------------------------------
(* update_all_packages *)

pkg_types == <<"brew", "flatpak", "pipx">>
Backends == {pkg_types[i] : i \in 1..Len(pkg_types)}

RetryLatencyThreshold == 1000
MinTimeout == 60
RetryFactor == 3

BaseTimeout_NoFloor(lat) == lat \div 10

BaseTimeout(lat) == Max(MinTimeout, lat \div 10)

RetryTimeout_SameAsBase(base) == base

\* retry_timeout = base_timeout * 3, computed before the first pass.
RetryTimeout(base) == base * RetryFactor

\* Python dict, insertion ordered: a sequence of <<key, value>> pairs.
DictKeys(d) == {d[i][1] : i \in 1..Len(d)}
DictGet(d, k) == d[CHOOSE i \in 1..Len(d) : d[i][1] = k][2]
DictSet(d, k, v) ==
    IF k \in DictKeys(d)
    THEN [i \in 1..Len(d) |-> IF d[i][1] = k THEN <<k, v>> ELSE d[i]]
    ELSE Append(d, <<k, v>>)
DictValues(d) == {d[i][2] : i \in 1..Len(d)}

DictSetAll_Nothing(d, keys, v) == d

\* Lines 753-754: results[pkg_type] = False for every timed-out backend.
RECURSIVE DictSetAll(_, _, _)
DictSetAll(d, keys, v) ==
    IF keys = <<>> THEN d
    ELSE DictSetAll(DictSet(d, Head(keys), v), Tail(keys), v)

\* failed = [pkg for pkg, success in results.items() if not success]
RECURSIVE failed_of(_)
failed_of(d) ==
    IF d = <<>> THEN <<>>
    ELSE IF ~Head(d)[2] THEN <<Head(d)[1]>> \o failed_of(Tail(d))
         ELSE failed_of(Tail(d))

ProbeEvent(site, r) ==
    [op |-> "probe", site |-> site, pkg |-> "-", timeout |-> 0,
     outcome |-> IF r[1] THEN "reachable" ELSE "unreachable"]
UpgradeEvent(site, pkg, t, outcome) ==
    [op |-> "upgrade", site |-> site, pkg |-> pkg, timeout |-> t,
     outcome |-> outcome]

\* Line 699, "if not is_connected: ... return False".
InitialProbeAborts_Never(is_connected) == FALSE

InitialProbeAborts(is_connected) == ~is_connected

\* Line 736, the same test on the re-probe.
ReprobeAborts_Never(is_connected) == FALSE

ReprobeAborts(is_connected) == ~is_connected

\* Lines 697-712: the initial probe, the early return, the timeouts.  Past
\* the early return a latency of None cannot be formatted (line 704 raises
\* TypeError).
UpdateAll_Probe ==
    /\ UNCHANGED <<sync_vars, probe_vars, load_vars>>
    /\ pc = "start"
    /\ \E pings \in AllPings :
         LET r == check_internet_connection(pings)
         IN  /\ calls' = Append(calls, ProbeEvent("initial", r))
             /\ latency' = r[2]
             /\ IF InitialProbeAborts(r[1])
                THEN /\ ret' = Some(FALSE)
                     /\ pc' = "returned"
                     /\ UNCHANGED <<base_timeout, retry_timeout>>
                ELSE IF r[2] = None
                THEN /\ pc' = "raised"
                     /\ UNCHANGED <<base_timeout, retry_timeout, ret>>
                ELSE /\ base_timeout' = BaseTimeout(Val(r[2]))
                     /\ retry_timeout' = RetryTimeout(base_timeout')
                     /\ pc' = "first_pass"
                     /\ ret' = ret
    /\ idx' = 1
    /\ UNCHANGED <<present, new_latency, results, timeout_failures, summary>>

\* The retry decision of line 746.
ShouldRetry_LatencyOnly(res, nlat) == nlat < RetryLatencyThreshold

ShouldRetry(res, nlat) ==
    (TRUE \in DictValues(res)) \/ nlat < RetryLatencyThreshold

\* Lines 716-723: a backend is skipped when shutil.which does not find its
\* executable.
skipped_never(pkg_type) == FALSE

skipped(pkg_type) == pkg_type \notin present

\* Lines 715-729: one iteration of the first-pass loop.  A backend whose
\* executable is not found is skipped; otherwise its bulk upgrade runs with
\* base_timeout and is filed under timeout_failures or results.
UpdateAll_FirstPass ==
    /\ UNCHANGED <<sync_vars, probe_vars, load_vars>>
    /\ pc = "first_pass"
    /\ idx <= Len(pkg_types)
    /\ LET pkg_type == pkg_types[idx]
       IN  IF skipped(pkg_type)
           THEN UNCHANGED <<results, timeout_failures, calls>>
           ELSE \E outcome \in UpgradeOutcomes :
                  LET r == update_packages(outcome)
                  IN  /\ calls' = Append(calls,
                             UpgradeEvent("first", pkg_type, base_timeout, outcome))
                      /\ IF r[2]
                         THEN /\ timeout_failures' = Append(timeout_failures, pkg_type)
                              /\ results' = results
                         ELSE /\ results' = DictSet(results, pkg_type, r[1])
                              /\ timeout_failures' = timeout_failures
    /\ idx' = idx + 1
    /\ UNCHANGED <<pc, present, latency, new_latency, base_timeout,
                   retry_timeout, ret, summary>>

\* The first-pass loop of line 715 has run over all of pkg_types.
FirstPassDone_OnFirstTimeout == idx > Len(pkg_types) \/ timeout_failures # <<>>

FirstPassDone == idx > Len(pkg_types)

\* Line 732: after the loop, "if timeout_failures:".
UpdateAll_AfterFirstPass ==
    /\ UNCHANGED <<sync_vars, probe_vars, load_vars>>
    /\ pc = "first_pass"
    /\ FirstPassDone
    /\ pc' = IF timeout_failures # <<>> THEN "reprobe" ELSE "analyze"
    /\ UNCHANGED <<present, latency, new_latency, base_timeout, retry_timeout,
                   idx, results, timeout_failures, ret, summary, calls>>

\* Lines 733-754 up to the retry loop: the re-probe, the abort on lost
\* connectivity, and the decision to retry or to mark the timeouts failed.
\* (The latency-doubled branch only prints; comparing a latency of None at
\* line 741 raises TypeError.)
UpdateAll_Reprobe ==
    /\ UNCHANGED <<sync_vars, probe_vars, load_vars>>
    /\ pc = "reprobe"
    /\ \E pings \in AllPings :
         LET r == check_internet_connection(pings)
         IN  /\ calls' = Append(calls, ProbeEvent("reprobe", r))
             /\ new_latency' = r[2]
             /\ IF ReprobeAborts(r[1])
                THEN /\ ret' = Some(FALSE)
                     /\ pc' = "returned"
                     /\ UNCHANGED <<results, idx>>
                ELSE IF r[2] = None
                THEN /\ pc' = "raised"
                     /\ UNCHANGED <<results, idx, ret>>
                ELSE IF ShouldRetry(results, Val(r[2]))
                THEN /\ pc' = "retry"
                     /\ idx' = 1
                     /\ UNCHANGED <<results, ret>>
                ELSE /\ results' = DictSetAll(results, timeout_failures, FALSE)
                     /\ pc' = "analyze"
                     /\ UNCHANGED <<idx, ret>>
    /\ UNCHANGED <<present, latency, base_timeout, retry_timeout,
                   timeout_failures, summary>>

\* Line 748: the list the retry loop runs over.
retry_list_all_present == SelectSeq(pkg_types, LAMBDA b : b \in present)

retry_list_twice == timeout_failures \o timeout_failures

retry_list == timeout_failures

\* Lines 748-750: one iteration of the retry loop.
UpdateAll_Retry ==
    /\ UNCHANGED <<sync_vars, probe_vars, load_vars>>
    /\ pc = "retry"
    /\ idx <= Len(retry_list)
    /\ LET pkg_type == retry_list[idx]
       IN  \E outcome \in UpgradeOutcomes :
             LET r == update_packages(outcome)
             IN  /\ calls' = Append(calls,
                        UpgradeEvent("retry", pkg_type, retry_timeout, outcome))
                 /\ results' = DictSet(results, pkg_type, r[1])
    /\ idx' = idx + 1
    /\ UNCHANGED <<pc, present, latency, new_latency, base_timeout,
                   retry_timeout, timeout_failures, ret, summary>>

UpdateAll_AfterRetry ==
    /\ UNCHANGED <<sync_vars, probe_vars, load_vars>>
    /\ pc = "retry"
    /\ idx > Len(retry_list)
    /\ pc' = "analyze"
    /\ UNCHANGED <<present, latency, new_latency, base_timeout, retry_timeout,
                   idx, results, timeout_failures, ret, summary, calls>>

\* Lines 757-765: the failed list, the summary, the return value.
UpdateAll_Return ==
    /\ UNCHANGED <<sync_vars, probe_vars, load_vars>>
    /\ pc = "analyze"
    /\ LET failed == failed_of(results)
       IN  /\ summary' = IF failed # <<>> THEN Some(failed) ELSE summary
           /\ ret' = Some(Len(failed) = 0)
    /\ pc' = "returned"
    /\ UNCHANGED <<present, latency, new_latency, base_timeout, retry_timeout,
                   idx, results, timeout_failures, calls>>

-----------------------------------------------------------------------------
(* The Registry file, the local machine, get_all_packages *)

\* At most this many install/remove commands of one sync call exit non-zero.
MaxFailures == 1

\* At most this many sync_packages calls are made on the Registry file.
MaxSyncs == 3

\* At most this many packages other than the named one are affected by the
\* commands of one sync call.
MaxSideEffects == 1

Machines == {"laptop", "desktop"}

\* The package ids that exist, per backend.
Universe ==
    [b \in Backends |->
        CASE b = "brew" -> {"git", "vim"}
          [] b = "flatpak" -> {"org.mozilla.firefox"}
          [] b = "pipx" -> {"black"}]

\* Python's str ordering on those ids, as the position in this list.
LexOrder == <<"black", "git", "org.mozilla.firefox", "vim">>
Rank(p) == CHOOSE i \in 1..Len(LexOrder) : LexOrder[i] = p

\* sorted(S) for a set of package ids.
RECURSIVE sorted_descending(_)
sorted_descending(S) ==
    IF S = {} THEN <<>>
    ELSE LET m == CHOOSE x \in S : \A y \in S : Rank(x) >= Rank(y)
         IN  <<m>> \o sorted_descending(S \ {m})

RECURSIVE sorted(_)
sorted(S) ==
    IF S = {} THEN <<>>
    ELSE LET m == CHOOSE x \in S : \A y \in S : Rank(x) <= Rank(y)
         IN  <<m>> \o sorted(S \ {m})

\* set(L) for a list.
set(L) == {L[i] : i \in 1..Len(L)}

\* What can be installed on a machine on whose PATH the backends pres are: a
\* backend without its executable has nothing installed.
Installable(b, pres) == IF b \in pres THEN SUBSET Universe[b] ELSE {{}}

LocalStates(pres) ==
    {[b \in Backends |->
        CASE b = "brew" -> x [] b = "flatpak" -> y [] b = "pipx" -> z] :
        x \in Installable("brew", pres),
        y \in Installable("flatpak", pres),
        z \in Installable("pipx", pres)}

\* get_brew_packages, get_flatpak_packages, get_pipx_packages: the listing, or
\* set() on FileNotFoundError.
get_packages(b, inst, pres) == IF b \in pres THEN inst[b] ELSE {}

get_all_packages(inst, pres) == [b \in Backends |-> get_packages(b, inst, pres)]

\* sets_to_lists, applied by save_config to the packages of a record.
sets_to_lists(packages) == [b \in DOMAIN packages |-> sorted(packages[b])]

\* The config dictionary load_config creates when there is no file.
EmptyConfig == [primary_machine |-> None, machines |-> <<>>]

\* config["machines"][name] = {"packages": packages, ...} followed by
\* save_config(config); last_update is not modelled.
save_config_without_record(primary, machines, name, packages) ==
    [primary_machine |-> primary, machines |-> machines]

save_config_only_this_machine(primary, machines, name, packages) ==
    [primary_machine |-> primary,
     machines |-> [n \in {name} |-> sets_to_lists(packages)]]

save_config(primary, machines, name, packages) ==
    [primary_machine |-> primary,
     machines |-> [n \in DOMAIN machines \cup {name} |->
                     IF n = name THEN sets_to_lists(packages) ELSE machines[n]]]

-----------------------------------------------------------------------------
(* load_config *)

\* What can be at a path: nothing, the JSON text of a dictionary (json.dump
\* of data), or a text json.load rejects with JSONDecodeError.
Absent == [kind |-> "absent", text |-> "", data |-> EmptyConfig]
JsonFile(data) == [kind |-> "json", text |-> "", data |-> data]
Malformed(text) == [kind |-> "malformed", text |-> text, data |-> EmptyConfig]

\* Texts that are not JSON: an empty file, a cut-off file.
MalformedTexts == {"", "{", "{\"primary_machine\": nul"}

NotLoaded == [status |-> "none", config |-> EmptyConfig]
Returned(data) == [status |-> "returned", config |-> data]

\* Lines 90-93: the handler of JSONDecodeError.
load_config_without_backup(file, backup) ==
    IF file.kind = "json"
    THEN [config_file |-> file, backup_file |-> backup,
          loaded |-> Returned(file.data)]
    ELSE [config_file |-> JsonFile(EmptyConfig), backup_file |-> backup,
          loaded |-> Returned(EmptyConfig)]

\* load_config on the file at CONFIG_PATH and the one at the backup path:
\* the files it leaves and what it returns.  A file that parses is returned
\* as it is (lines 86-89); a file that does not is copied to the backup path
\* (lines 90-93); then, as when there is no file, the empty Registry is
\* saved and returned (lines 95-101).
load_config(file, backup) ==
    IF file.kind = "json"
    THEN [config_file |-> file, backup_file |-> backup,
          loaded |-> Returned(file.data)]
    ELSE [config_file |-> JsonFile(EmptyConfig),
          backup_file |-> IF file.kind = "malformed" THEN file ELSE backup,
          loaded |-> Returned(EmptyConfig)]

LoadConfig ==
    /\ loaded.status = "none"
    /\ LET r == load_config(config_file, backup_file)
       IN  /\ config_file' = r.config_file
           /\ backup_file' = r.backup_file
           /\ loaded' = r.loaded
    /\ UNCHANGED <<update_vars, sync_vars, probe_vars>>

-----------------------------------------------------------------------------
(* install_package, remove_package *)

\* subprocess.run raises FileNotFoundError when the executable is missing;
\* neither function catches it.  Otherwise the exit status decides.
install_package(pkg_type, package, pres, exit0) ==
    IF pkg_type \notin pres THEN "FileNotFoundError"
    ELSE IF exit0 THEN "True" ELSE "False"

remove_package(pkg_type, package, pres, exit0) ==
    IF pkg_type \notin pres THEN "FileNotFoundError"
    ELSE IF exit0 THEN "True" ELSE "False"

-----------------------------------------------------------------------------
(* sync_packages *)

\* Line 828: the order in which the backends are reconciled.
sync_order_of_update == <<"brew", "flatpak", "pipx">>

sync_order == <<"pipx", "brew", "flatpak">>

\* Lines 833 and 841.
to_install_everything(primary, current) == primary

to_install(primary, current) == primary \ current

to_remove_nothing(primary, current) == {}

to_remove(primary, current) == current \ primary

Action(op, pkg_type, package) == [op |-> op, pkg_type |-> pkg_type, package |-> package]

ActionsOf(op, pkg_type, L) == [i \in 1..Len(L) |-> Action(op, pkg_type, L[i])]

\* The install and remove calls the loop of lines 828-846 makes when none of
\* them raises, in order.
RECURSIVE plan(_, _, _)
plan(primary_packages, current, i) ==
    IF i > Len(sync_order) THEN <<>>
    ELSE LET pkg_type == sync_order[i]
             cur == current[pkg_type]
             primary == set(primary_packages[pkg_type])
         IN  ActionsOf("install", pkg_type, sorted(to_install(primary, cur)))
             \o ActionsOf("remove", pkg_type, sorted(to_remove(primary, cur)))
             \o plan(primary_packages, current, i + 1)

\* The effect of a command that exited 0 on what is installed: the named
\* package is installed or removed, and with it the packages of side that the
\* backend drags along (dependencies installed, dependents removed).
Apply(inst, a, side) ==
    LET along == side \cap Universe[a.pkg_type]
    IN  [inst EXCEPT ![a.pkg_type] =
            IF a.op = "install" THEN @ \cup {a.package} \cup along
            ELSE @ \ ({a.package} \cup along)]

\* The packages a command of todo can drag along: those of its backend that
\* no command of todo names.
SideCandidates(todo) ==
    UNION {Universe[todo[i].pkg_type] : i \in 1..Len(todo)}
        \ {todo[i].package : i \in 1..Len(todo)}

\* The loop of lines 828-846 run over its calls: the calls whose index is in
\* fails exit non-zero, a call for a missing executable raises and ends the
\* loop.
RECURSIVE run(_, _, _, _, _, _, _, _)
run(todo, i, fails, side, pres, inst, log, changed) ==
    IF i > Len(todo)
    THEN [actions |-> log, installed |-> inst, changes_made |-> changed,
          raised |-> FALSE]
    ELSE LET a == todo[i]
             r == IF a.op = "install"
                  THEN install_package(a.pkg_type, a.package, pres, i \notin fails)
                  ELSE remove_package(a.pkg_type, a.package, pres, i \notin fails)
             entry == [op |-> a.op, pkg_type |-> a.pkg_type,
                       package |-> a.package, result |-> r]
         IN  IF r = "FileNotFoundError"
             THEN [actions |-> Append(log, entry), installed |-> inst,
                   changes_made |-> changed, raised |-> TRUE]
             ELSE IF r = "True"
             THEN run(todo, i + 1, fails, side, pres, Apply(inst, a, side),
                      Append(log, entry), TRUE)
             ELSE run(todo, i + 1, fails, side, pres, inst,
                      Append(log, entry), changed)

NoInventory == [b \in Backends |-> {}]

\* Lines 804-805: the primary after "if make_primary or
\* config['primary_machine'] is None".
elect_only_on_request(m, mp, primary_machine) ==
    IF mp THEN Some(m) ELSE primary_machine

elect(m, mp, primary_machine) ==
    IF mp \/ primary_machine = None THEN Some(m) ELSE primary_machine

\* Lines 811-814: the snapshot is only recorded, without reconciling.
records_only_when_new(m, primary_machine, machines) ==
    m \notin DOMAIN machines

records_only(m, primary_machine, machines) ==
    m \notin DOMAIN machines \/ Some(m) = primary_machine

\* Lines 848-853: the packages written to the record after reconciling;
\* listing is what get_all_packages returns at that moment.
final_packages_never_listed_again(changed, current, listing) == current

final_packages(changed, current, listing) ==
    IF changed THEN listing ELSE current

\* One call sync_packages(m, mp) on a machine with the executables pres and
\* the packages local installed.
sync_packages(m, mp, pres, local) ==
    LET current == get_all_packages(local, pres)
        primary_machine == elect(m, mp, config.primary_machine)
    IN  /\ machine_name' = Some(m)
        /\ make_primary' = mp
        /\ current_packages' = current
        /\ IF records_only(m, primary_machine, config.machines)
           THEN \* lines 811-821
                /\ config' = save_config(primary_machine, config.machines, m, current)
                /\ installed' = local
                /\ actions' = <<>>
                /\ changes_made' = FALSE
                /\ side_effects' = {}
                /\ sync_status' = "recorded"
           ELSE IF \/ primary_machine = None
                   \/ Val(primary_machine) \notin DOMAIN config.machines
           THEN \* line 824 raises KeyError
                /\ sync_status' = "raised"
                /\ installed' = local
                /\ actions' = <<>>
                /\ changes_made' = FALSE
                /\ side_effects' = {}
                /\ config' = config
           ELSE \* lines 824-856
                LET primary_packages == config.machines[Val(primary_machine)]
                    todo == plan(primary_packages, current, 1)
                IN  \E fails \in SUBSET (1..Len(todo)),
                       side \in SUBSET SideCandidates(todo) :
                      /\ Cardinality(fails) <= MaxFailures
                      /\ Cardinality(side) <= MaxSideEffects
                      /\ LET r == run(todo, 1, fails, side, pres, local, <<>>, FALSE)
                         IN  /\ actions' = r.actions
                             /\ installed' = r.installed
                             /\ changes_made' = r.changes_made
                             /\ side_effects' = side
                             /\ IF r.raised
                                THEN /\ sync_status' = "raised"
                                     /\ config' = config
                                ELSE /\ sync_status' = "synced"
                                     /\ config' = save_config(
                                            primary_machine, config.machines, m,
                                            final_packages(r.changes_made, current,
                                                get_all_packages(r.installed, pres)))

SyncPackages ==
    /\ syncs < MaxSyncs
    /\ syncs' = syncs + 1
    /\ \E m \in Machines, mp \in BOOLEAN, pres \in SUBSET Backends :
         \E local \in LocalStates(pres) :
            sync_packages(m, mp, pres, local)
    /\ UNCHANGED <<update_vars, probe_vars, load_vars>>

-----------------------------------------------------------------------------
\* check_internet_connection and load_config have not been called on their
\* own.
NoProbeRun == pinged = <<>> /\ probe = None

NoLoadRun ==
    /\ config_file = JsonFile(EmptyConfig)
    /\ backup_file = Absent
    /\ loaded = NotLoaded

Init ==
    /\ pc = "start"
    /\ present \in SUBSET Backends
    /\ latency = None
    /\ new_latency = None
    /\ base_timeout = 0
    /\ retry_timeout = 0
    /\ idx = 1
    /\ results = <<>>
    /\ timeout_failures = <<>>
    /\ ret = None
    /\ summary = None
    /\ calls = <<>>
    /\ config = EmptyConfig
    /\ machine_name = None
    /\ make_primary = FALSE
    /\ current_packages = NoInventory
    /\ installed = NoInventory
    /\ actions = <<>>
    /\ changes_made = FALSE
    /\ side_effects = {}
    /\ sync_status = "none"
    /\ syncs = 0
    /\ NoProbeRun
    /\ NoLoadRun

Next ==
    \/ UpdateAll_Probe
    \/ UpdateAll_FirstPass
    \/ UpdateAll_AfterFirstPass
    \/ UpdateAll_Reprobe
    \/ UpdateAll_Retry
    \/ UpdateAll_AfterRetry
    \/ UpdateAll_Return

-----------------------------------------------------------------------------
(* What the history of an update_all_packages run shows *)

CallIdx == 1..Len(calls)
FirstPassIdx == {i \in CallIdx : calls[i].op = "upgrade" /\ calls[i].site = "first"}
RetryIdx == {i \in CallIdx : calls[i].op = "upgrade" /\ calls[i].site = "retry"}
UpgradeIdx == {i \in CallIdx : calls[i].op = "upgrade"}
ReprobeIdx == {i \in CallIdx : calls[i].op = "probe" /\ calls[i].site = "reprobe"}
UpgradesOf(b) == {i \in UpgradeIdx : calls[i].pkg = b}

InitialProbeUnreachable ==
    Len(calls) >= 1 /\ calls[1].op = "probe" /\ calls[1].outcome = "unreachable"
ReprobeReachable == \E i \in ReprobeIdx : calls[i].outcome = "reachable"
ReprobeUnreachable == \E i \in ReprobeIdx : calls[i].outcome = "unreachable"

\* The backends by the outcome of their first-pass upgrade.
FirstPassWith(outcomes) == {calls[i].pkg : i \in {j \in FirstPassIdx : calls[j].outcome \in outcomes}}
TimedOut == FirstPassWith({"timeout"})
Retried == {calls[i].pkg : i \in RetryIdx}

\* b ended well: exit 0 in the first pass, or a timeout there and exit 0 in
\* the retry.
UltimatelySucceeded(b) ==
    \/ b \in FirstPassWith({"exit0"})
    \/ b \in TimedOut /\ \E i \in RetryIdx : calls[i].pkg = b /\ calls[i].outcome = "exit0"

Attempted == {calls[i].pkg : i \in UpgradeIdx}

Recorded(b, v) == b \in DictKeys(results) /\ DictGet(results, b) = v

-----------------------------------------------------------------------------
(* Claims about update_all_packages, checked under Spec *)

\* C2: if the initial connectivity probe reports unreachable,
\* update_all_packages returns False and makes no update_packages call.
C2_UnreachableMakesNoUpgrade ==
    InitialProbeUnreachable =>
        /\ pc = "returned"
        /\ ret = Some(FALSE)
        /\ UpgradeIdx = {}

C2_Witness == InitialProbeUnreachable /\ pc = "returned" /\ present = Backends

\* C3: a backend whose first-pass upgrade exited non-zero is classified as a
\* failure, not as a timeout, and is not upgraded a second time, whatever the
\* other backends did.
C3_FailureIsNotRetried ==
    \A b \in FirstPassWith({"nonzero"}) :
        /\ b \notin set(timeout_failures)
        /\ Recorded(b, FALSE)
        /\ Cardinality(UpgradesOf(b)) = 1

C3_Witness ==
    /\ pc = "returned"
    /\ FirstPassWith({"nonzero"}) # {}
    /\ Retried # {}

\* C4: after a first pass with a timeout and a re-probe that reports
\* reachable, the timed-out backends are retried if and only if a backend
\* succeeded in the first pass or the re-probed latency is below 1000 ms;
\* otherwise none of them is upgraded again and each is recorded as failed.
C4_RetryGate ==
    ReprobeReachable =>
        IF FirstPassWith({"exit0"}) # {} \/ Val(new_latency) < 1000
        THEN /\ pc \in {"retry", "analyze", "returned"}
             /\ pc # "retry" => Retried = TimedOut
        ELSE /\ pc \in {"analyze", "returned"}
             /\ RetryIdx = {}
             /\ \A b \in TimedOut : Recorded(b, FALSE)

C4_Witness ==
    /\ ReprobeReachable
    /\ Val(new_latency) >= 1000
    /\ FirstPassWith({"exit0"}) # {}
    /\ Retried = TimedOut
    /\ pc = "returned"

C4_WitnessNoRetry ==
    /\ ReprobeReachable
    /\ Val(new_latency) >= 1000
    /\ FirstPassWith({"exit0"}) = {}
    /\ TimedOut # {}
    /\ pc = "returned"

\* C5: if a backend timed out in the first pass and the re-probe reports
\* unreachable, the call returns False and no upgrade is made after the
\* re-probe, however many backends succeeded in the first pass.
C5_LostConnectivityAborts ==
    \A i \in ReprobeIdx :
        calls[i].outcome = "unreachable" =>
            /\ pc = "returned"
            /\ ret = Some(FALSE)
            /\ \A j \in UpgradeIdx : j < i

C5_Witness ==
    /\ ReprobeUnreachable
    /\ Cardinality(FirstPassWith({"exit0"})) = 2
    /\ pc = "returned"

\* C6, as claimed: update_all_packages returns True if and only if every
\* backend on which an upgrade was attempted ultimately succeeded.
C6_TrueIffAllAttemptedSucceeded ==
    pc = "returned" =>
        (ret = Some(TRUE) <=> \A b \in Attempted : UltimatelySucceeded(b))

\* C6, amended: update_all_packages returns True if and only if the initial
\* probe reported reachable and every backend on which an upgrade was
\* attempted ultimately succeeded; otherwise it returns False.
C6_TrueIffReachableAndAllSucceeded ==
    pc = "returned" =>
        /\ ret \in {Some(TRUE), Some(FALSE)}
        /\ ret = Some(TRUE) <=>
              /\ ~InitialProbeUnreachable
              /\ \A b \in Attempted : UltimatelySucceeded(b)

C6_Witness ==
    /\ pc = "returned"
    /\ ret = Some(TRUE)
    /\ Retried # {}
    /\ FirstPassWith({"exit0"}) # {}

\* C7, as claimed: the timeout of every first-pass upgrade is
\* max(60, latency_ms / 10) seconds, fractions kept (both sides times 10).
C7_TimeoutIsExactTenth ==
    \A i \in FirstPassIdx : 10 * calls[i].timeout = Max(600, Val(latency))

\* C7, amended: the timeout of every first-pass upgrade is
\* max(60, floor(latency_ms / 10)) whole seconds for the latency of the
\* initial probe.
C7_TimeoutIsTruncatedTenth ==
    \A i \in FirstPassIdx : calls[i].timeout = Max(60, Val(latency) \div 10)

C7_Witness ==
    \E i \in FirstPassIdx : Val(latency) = 605 /\ calls[i].timeout = 60

\* C8: every retry upgrade runs with exactly three times the timeout of the
\* first pass of the same run, which comes from the initial probe's latency
\* and not from the re-probe's.
C8_RetryTimeoutIsTriple ==
    \A i \in RetryIdx : \A j \in FirstPassIdx :
        calls[i].timeout = 3 * calls[j].timeout

C8_Witness ==
    /\ RetryIdx # {}
    /\ new_latency # None
    /\ Val(new_latency) \div 10 > Val(latency) \div 10
    /\ Val(new_latency) \div 10 > 60

\* C9: every backend is upgraded at most twice in one run; a second upgrade
\* happens only after a first one that timed out; a backend whose retry
\* times out again is recorded as failed and not retried again.
C9_AtMostOneRetry ==
    \A b \in Backends :
        /\ Cardinality(UpgradesOf(b)) <= 2
        /\ Cardinality(UpgradesOf(b) \cap FirstPassIdx) <= 1
        /\ \A i \in UpgradesOf(b) \cap RetryIdx :
              /\ \E j \in UpgradesOf(b) \cap FirstPassIdx :
                    j < i /\ calls[j].outcome = "timeout"
              /\ calls[i].outcome = "timeout" => Recorded(b, FALSE)

C9_Witness ==
    /\ pc = "returned"
    /\ \E i \in RetryIdx : calls[i].outcome = "timeout"
    /\ FirstPassWith({"nonzero", "exit0"}) # {}

\* C10: all first-pass upgrades of the present backends come before the
\* re-probe, and the re-probe comes before every retry upgrade; nothing is
\* retried, and no retry is decided, before that.
C10_FirstPassThenReprobeThenRetry ==
    /\ \A i \in ReprobeIdx :
          /\ \A j \in FirstPassIdx : j < i
          /\ present = {calls[j].pkg : j \in {k \in FirstPassIdx : k < i}}
    /\ \A i \in RetryIdx : \E j \in ReprobeIdx : j < i
    /\ pc \in {"retry", "analyze"} => FirstPassWith(UpgradeOutcomes) = present
    /\ Cardinality(ReprobeIdx) <= 1

C10_Witness ==
    /\ Cardinality(FirstPassIdx) = 3
    /\ Cardinality(RetryIdx) >= 2
    /\ calls[2].outcome = "timeout"

\* C11, as claimed: a backend whose executable is not present is never
\* upgraded, never among the failed backends, never the reason for a result
\* of False, and when no backend is present the call returns True.
C11_AbsentBackendIgnoredAndNoneGivesTrue ==
    /\ \A b \in Backends \ present :
          /\ UpgradesOf(b) = {}
          /\ b \notin DictKeys(results)
          /\ summary # None => b \notin set(Val(summary))
    /\ pc = "returned" /\ present = {} => ret = Some(TRUE)

\* C11, amended: a backend whose executable is not present is never upgraded
\* and never among the failed backends; a result of False always comes from
\* an unreachable probe or from a present backend that did not succeed; when
\* no backend is present and the initial probe reports reachable the call
\* returns True.
C11_AbsentBackendIgnored ==
    /\ \A b \in Backends \ present :
          /\ UpgradesOf(b) = {}
          /\ b \notin DictKeys(results)
          /\ b \notin set(timeout_failures)
          /\ summary # None => b \notin set(Val(summary))
    /\ pc = "returned" /\ ret = Some(FALSE) =>
          \/ InitialProbeUnreachable
          \/ ReprobeUnreachable
          \/ \E b \in present : b \in Attempted /\ ~UltimatelySucceeded(b)
    /\ pc = "returned" /\ present = {} /\ ~InitialProbeUnreachable =>
          ret = Some(TRUE)

C11_Witness ==
    /\ pc = "returned"
    /\ present = {"flatpak"}
    /\ ret = Some(FALSE)
    /\ summary = Some(<<"flatpak">>)

C11_WitnessNonePresent ==
    pc = "returned" /\ present = {} /\ ret = Some(TRUE)

\* The backends that were attempted and did not end well: a non-zero exit or
\* an exception, or a timeout not followed by a retry that exited 0.
EndedInFailureOrTimeout == {b \in Attempted : ~UltimatelySucceeded(b)}

\* C23, as claimed: whenever update_all_packages returns with an attempted
\* backend that ended in failure or timeout, a summary naming the failed
\* backends has been printed, also when the return is the abort at the
\* re-probe.
C23_SummaryOnEveryExitPath ==
    pc = "returned" /\ EndedInFailureOrTimeout # {} =>
        summary # None /\ set(Val(summary)) = EndedInFailureOrTimeout

\* The same holds of every return but the abort at the re-probe.
SummaryNamesFailed_UnlessReprobeAborts ==
    pc = "returned" /\ EndedInFailureOrTimeout # {} /\ ~ReprobeUnreachable =>
        summary # None /\ set(Val(summary)) = EndedInFailureOrTimeout

\* C26: a probe reports reachable exactly when it returns a latency, so
\* update_all_packages computes the timeouts and compares latencies only
\* with a latency that is defined and never raises on a latency of None.
C26_LatencyDefinedWhereUsed ==
    /\ pc # "raised"
    /\ Len(calls) >= 1 => (calls[1].outcome = "reachable" <=> latency # None)
    /\ \A i \in ReprobeIdx : calls[i].outcome = "reachable" <=> new_latency # None
    /\ pc \in {"first_pass", "reprobe", "retry", "analyze"} => latency # None
    /\ pc \in {"retry", "analyze"} /\ ReprobeIdx # {} => new_latency # None

\* A run whose re-probe found the latency more than doubled and still below
\* the threshold.
C26_Witness ==
    /\ pc = "retry"
    /\ latency = Some(500)
    /\ new_latency = Some(999)
    /\ base_timeout = MinTimeout

ProbeIdx == {i \in CallIdx : calls[i].op = "probe"}

\* C27: every update_all_packages run eventually returns, and makes at most
\* two connectivity probes and at most two upgrade calls per backend.
C27_ReturnsAfterBoundedCalls ==
    /\ <>(pc = "returned")
    /\ [](/\ Cardinality(ProbeIdx) <= 2
          /\ \A b \in Backends : Cardinality(UpgradesOf(b)) <= 2)

\* A run that returned after two probes and two upgrade calls of every
\* backend.
C27_Witness ==
    /\ pc = "returned"
    /\ Cardinality(ProbeIdx) = 2
    /\ \A b \in Backends : Cardinality(UpgradesOf(b)) = 2

-----------------------------------------------------------------------------
(* Claims about check_internet_connection, checked under ProbeSpec *)

\* The hosts whose ping exited 0, and those of them whose time was parsed.
Responded == {i \in 1..Len(pinged) : pinged[i].status \in {"ok", "unparseable"}}
Parsed == {i \in 1..Len(pinged) : pinged[i].status = "ok"}
ParsedTimes == {pinged[i].time : i \in Parsed}
MinParsedTime == CHOOSE t \in ParsedTimes : \A u \in ParsedTimes : t <= u

\* The latency reported is the minimum over the hosts whose time was parsed,
\* None when there is no such host.
LatencyIsMinParsed ==
    Val(probe)[2] = IF Parsed = {} THEN None ELSE Some(MinParsedTime)

\* C21, as claimed: check_internet_connection reports reachable if and only
\* if at least one host responded, and the latency it reports is the minimum
\* over the responding hosts whose time was parsed.
C21_ReachableIffAnyHostResponded ==
    probe # None =>
        /\ Val(probe)[1] <=> Responded # {}
        /\ LatencyIsMinParsed

\* What holds instead: reachable if and only if the time of some host was
\* parsed.
ReachableIffSomeTimeParsed ==
    probe # None =>
        /\ Val(probe)[1] <=> Parsed # {}
        /\ LatencyIsMinParsed

-----------------------------------------------------------------------------
(* Claims about sync_packages, checked under SyncSpec *)

InstallsAttempted(b) ==
    {actions[i].package : i \in {j \in 1..Len(actions) :
        actions[j].op = "install" /\ actions[j].pkg_type = b}}
RemovesAttempted(b) ==
    {actions[i].package : i \in {j \in 1..Len(actions) :
        actions[j].op = "remove" /\ actions[j].pkg_type = b}}

\* The step is a sync_packages call without promotion for a machine that has
\* a record and is not the primary, whose record exists.
SyncOfKnownNonPrimary ==
    /\ syncs' = syncs + 1
    /\ ~make_primary'
    /\ config.primary_machine # None
    /\ config.primary_machine # machine_name'
    /\ Val(machine_name') \in DOMAIN config.machines
    /\ Val(config.primary_machine) \in DOMAIN config.machines

PrimaryRecorded(b) == set(config.machines[Val(config.primary_machine)][b])

\* C1: a sync_packages call without promotion for a known non-primary machine
\* attempts install for exactly the packages the primary's record has and the
\* local snapshot lacks, and remove for exactly those the snapshot has and the
\* record lacks, on every backend; it makes no call for a backend if and only
\* if the two sets are equal.
C1_ReconcileAttemptsExactDifference ==
    [][SyncOfKnownNonPrimary =>
        \A b \in Backends :
            /\ InstallsAttempted(b)' = PrimaryRecorded(b) \ current_packages'[b]
            /\ RemovesAttempted(b)' = current_packages'[b] \ PrimaryRecorded(b)
            /\ (InstallsAttempted(b)' = {} /\ RemovesAttempted(b)' = {})
                  <=> PrimaryRecorded(b) = current_packages'[b]]_vars

\* The same holds of every such call in which no install or remove raises.
Reconcile_WhenNoCallRaises ==
    [][SyncOfKnownNonPrimary /\ sync_status' = "synced" =>
        \A b \in Backends :
            /\ InstallsAttempted(b)' = PrimaryRecorded(b) \ current_packages'[b]
            /\ RemovesAttempted(b)' = current_packages'[b] \ PrimaryRecorded(b)]_vars

\* The position of backend b in the sequence order.
Pos(order, b) == CHOOSE i \in 1..Len(order) : order[i] = b

\* The calls of the last sync_packages call follow the backend order given.
BackendsInOrder(order) ==
    \A i, j \in 1..Len(actions) :
        i < j => Pos(order, actions[i].pkg_type) <= Pos(order, actions[j].pkg_type)

\* C12, as claimed: during reconciliation every install or remove on brew
\* precedes every one on flatpak, which precedes every one on pipx.
C12_BrewThenFlatpakThenPipx == BackendsInOrder(<<"brew", "flatpak", "pipx">>)

\* C12, amended: during reconciliation every install or remove on pipx
\* precedes every one on brew, which precedes every one on flatpak.
C12_PipxThenBrewThenFlatpak == BackendsInOrder(<<"pipx", "brew", "flatpak">>)

\* One call that acted on all three backends.
C12_Witness ==
    /\ sync_status = "synced"
    /\ {actions[i].pkg_type : i \in 1..Len(actions)} = Backends

\* C13: within one backend every install is attempted before any remove,
\* installs are attempted in ascending lexical order of package id and so
\* are removes.
C13_InstallsBeforeRemovesAscending ==
    \A i, j \in 1..Len(actions) :
        i < j /\ actions[i].pkg_type = actions[j].pkg_type =>
            /\ ~(actions[i].op = "remove" /\ actions[j].op = "install")
            /\ actions[i].op = actions[j].op =>
                  Rank(actions[i].package) < Rank(actions[j].package)

\* One call that installed git and then vim on brew.
C13_Witness ==
    \E i \in 1..Len(actions) :
        /\ i < Len(actions)
        /\ actions[i] = [op |-> "install", pkg_type |-> "brew",
                         package |-> "git", result |-> "True"]
        /\ actions[i + 1].op = "install"
        /\ actions[i + 1].pkg_type = "brew"
        /\ actions[i + 1].package = "vim"

\* The step is a sync_packages call.
SyncCall == syncs' = syncs + 1

\* The packages recorded for machine m on backend b after the step.
RecordedAfter(m, b) == set(config'.machines[m][b])

\* C14, as claimed: a sync_packages call in which an install or remove
\* returned failure still attempts every install and remove of the computed
\* sets of every backend, and writes the machine's record.
C14_FailureDoesNotAbort ==
    [][SyncOfKnownNonPrimary
       /\ (\E i \in 1..Len(actions') : actions'[i].result = "False") =>
            /\ \A b \in Backends :
                  /\ InstallsAttempted(b)' = PrimaryRecorded(b) \ current_packages'[b]
                  /\ RemovesAttempted(b)' = current_packages'[b] \ PrimaryRecorded(b)
            /\ sync_status' = "synced"]_vars

\* The same holds of every such call in which no install or remove raises.
FailureDoesNotAbort_WhenNoCallRaises ==
    [][SyncOfKnownNonPrimary
       /\ (\E i \in 1..Len(actions') : actions'[i].result = "False")
       /\ (\A i \in 1..Len(actions') : actions'[i].result # "FileNotFoundError") =>
            /\ \A b \in Backends :
                  /\ InstallsAttempted(b)' = PrimaryRecorded(b) \ current_packages'[b]
                  /\ RemovesAttempted(b)' = current_packages'[b] \ PrimaryRecorded(b)
            /\ sync_status' = "synced"]_vars

\* C15, as claimed: a sync_packages call makes no install or remove call for
\* a backend whose executable is absent, raises no error and completes.
C15_AbsentBackendIsNoOp ==
    /\ sync_status # "raised"
    /\ \A i \in 1..Len(actions) : actions[i].result # "FileNotFoundError"

\* The step is a sync_packages call without promotion for a machine that has
\* a record and is not the primary, while the primary has no record.
SyncAgainstMissingPrimaryRecord ==
    /\ SyncCall
    /\ ~make_primary'
    /\ config.primary_machine # None
    /\ config.primary_machine # machine_name'
    /\ Val(machine_name') \in DOMAIN config.machines
    /\ Val(config.primary_machine) \notin DOMAIN config.machines

\* C16, as claimed: when primary_machine is set and has no record, a
\* sync_packages call by a known non-primary machine does not fail: it makes
\* no install or remove call and records the machine's snapshot.
C16_MissingPrimaryRecordTolerated ==
    [][SyncAgainstMissingPrimaryRecord =>
        /\ sync_status' = "recorded"
        /\ actions' = <<>>
        /\ \A b \in Backends :
              RecordedAfter(Val(machine_name'), b) = current_packages'[b]]_vars

\* What the call does instead: it raises and leaves the Registry as it was.
MissingPrimaryRecordRaises ==
    [][SyncAgainstMissingPrimaryRecord =>
        sync_status' = "raised" /\ actions' = <<>> /\ config' = config]_vars

\* C17, as claimed: a sync_packages call in which an install or remove
\* reported success persists, as the machine's record, the inventory as it
\* is listed after the last action.
C17_FreshListingPersisted ==
    [][SyncCall /\ (\E i \in 1..Len(actions') : actions'[i].result = "True") =>
        /\ sync_status' = "synced"
        /\ \A b \in Backends :
              RecordedAfter(Val(machine_name'), b) = installed'[b]]_vars

\* The same holds of every such call in which no install or remove raises.
FreshListingPersisted_WhenNoCallRaises ==
    [][SyncCall /\ (\E i \in 1..Len(actions') : actions'[i].result = "True")
       /\ (\A i \in 1..Len(actions') : actions'[i].result # "FileNotFoundError") =>
        /\ sync_status' = "synced"
        /\ \A b \in Backends :
              RecordedAfter(Val(machine_name'), b) = installed'[b]]_vars

\* The primary after the election step of the call of this step.
ElectedInStep ==
    IF make_primary' \/ config.primary_machine = None
    THEN machine_name' ELSE config.primary_machine

\* C18: a sync_packages call for a machine that has no record, or that is
\* the primary after the election step, makes no install and no remove call
\* and stores the machine's current snapshot as its record; a call for a
\* machine without record when no primary is set makes that machine primary.
C18_NewOrPrimaryOnlyRecords ==
    [][SyncCall /\ (\/ Val(machine_name') \notin DOMAIN config.machines
                    \/ ElectedInStep = machine_name') =>
        /\ actions' = <<>>
        /\ sync_status' = "recorded"
        /\ Val(machine_name') \in DOMAIN config'.machines
        /\ \A b \in Backends :
              RecordedAfter(Val(machine_name'), b) = current_packages'[b]
        /\ (Val(machine_name') \notin DOMAIN config.machines
              /\ config.primary_machine = None) =>
                 config'.primary_machine = machine_name']_vars

\* The primary, which has a record, synced again with packages installed.
C18_Witness ==
    /\ syncs >= 2
    /\ sync_status = "recorded"
    /\ ~make_primary
    /\ config.primary_machine = machine_name
    /\ DOMAIN config.machines = Machines
    /\ current_packages["brew"] = {"git", "vim"}
    /\ set(config.machines[Val(machine_name)]["brew"]) = {"git", "vim"}

\* C19: after sync_packages(m, make_primary) the Registry's primary_machine
\* is m if promotion was requested or no primary was set before the call,
\* and is what it was before the call otherwise.
C19_PrimaryElection ==
    [][SyncCall =>
        config'.primary_machine =
            IF make_primary' \/ config.primary_machine = None
            THEN machine_name' ELSE config.primary_machine]_vars

\* The second machine to sync has taken the primary role from the first.
C19_Witness ==
    /\ syncs = 2
    /\ make_primary
    /\ machine_name = Some("desktop")
    /\ config.primary_machine = Some("desktop")
    /\ DOMAIN config.machines = Machines

\* C20: when a known non-primary machine syncs, every install and remove
\* call reports success and each affects exactly the named package, the
\* record persisted for the machine equals the primary's record on every
\* backend.
C20_SuccessfulSyncEqualsPrimary ==
    [][SyncOfKnownNonPrimary
       /\ (\A i \in 1..Len(actions') : actions'[i].result = "True")
       /\ side_effects' = {} =>
            \A b \in Backends :
                RecordedAfter(Val(machine_name'), b) = PrimaryRecorded(b)]_vars

\* A call that installed and removed with success and left the machine's
\* record equal to the primary's.
C20_Witness ==
    /\ sync_status = "synced"
    /\ side_effects = {}
    /\ config.primary_machine # machine_name
    /\ \A i \in 1..Len(actions) : actions[i].result = "True"
    /\ \E i, j \in 1..Len(actions) :
          actions[i].op = "install" /\ actions[j].op = "remove"
    /\ config.machines[Val(machine_name)]
          = config.machines[Val(config.primary_machine)]

\* C24: starting from the empty Registry, after any sequence of
\* sync_packages calls, whenever primary_machine is set the Registry has a
\* record for it, and no call fails for want of the primary's record (a call
\* that raises does so on an install or remove).
C24_PrimaryHasRecord ==
    /\ config.primary_machine # None =>
          Val(config.primary_machine) \in DOMAIN config.machines
    /\ sync_status = "raised" =>
          \E i \in 1..Len(actions) : actions[i].result = "FileNotFoundError"

\* After three calls laptop has taken the primary role by promotion
\* and both machines have a record.
C24_Witness ==
    /\ syncs = MaxSyncs
    /\ sync_status = "recorded"
    /\ make_primary
    /\ machine_name = Some("laptop")
    /\ config.primary_machine = Some("laptop")
    /\ DOMAIN config.machines = Machines
    /\ set(config.machines["desktop"]["brew"]) = {"git"}

\* C25: a sync_packages call for m changes no record but the one of m, and
\* a call without promotion by a machine that is not the primary leaves
\* primary_machine and the primary's record as they were.
C25_OnlyOwnRecordChanges ==
    [][SyncCall =>
        /\ DOMAIN config'.machines \subseteq
              DOMAIN config.machines \cup {Val(machine_name')}
        /\ \A n \in DOMAIN config.machines \ {Val(machine_name')} :
              n \in DOMAIN config'.machines
                 /\ config'.machines[n] = config.machines[n]
        /\ (~make_primary' /\ config.primary_machine # None
              /\ config.primary_machine # machine_name') =>
                 /\ config'.primary_machine = config.primary_machine
                 /\ Val(config.primary_machine) \in DOMAIN config'.machines
                 /\ config'.machines[Val(config.primary_machine)]
                       = config.machines[Val(config.primary_machine)]]_vars

\* A machine that is not the primary has synced, an install failed, and its
\* record differs from the primary's, which still lists the package.
C25_Witness ==
    /\ sync_status = "synced"
    /\ ~make_primary
    /\ config.primary_machine # machine_name
    /\ \E i \in 1..Len(actions) :
          /\ actions[i].op = "install"
          /\ actions[i].result = "False"
          /\ actions[i].package
                \in set(config.machines[Val(config.primary_machine)][actions[i].pkg_type])
          /\ actions[i].package
                \notin set(config.machines[Val(machine_name)][actions[i].pkg_type])

-----------------------------------------------------------------------------
(* Claims about load_config, checked under LoadSpec *)

Spec == Init /\ [][Next]_vars

\* main() run again and again without --update: a sequence of sync_packages
\* calls on the same Registry file.
SyncNext == SyncPackages

\* The machines that sync have their own executables (an input of every call);
\* present, the PATH update_all_packages sees, plays no part.
SyncInit == Init /\ present = Backends

SyncSpec == SyncInit /\ [][SyncNext]_vars

\* The Registry files load_config accepts in which primary_machine names a
\* machine that has no record; the machines that have one share the packages.
DanglingConfigs ==
    UNION {{[primary_machine |-> Some(p),
             machines |-> [n \in known |-> sets_to_lists(packages)]] :
                known \in SUBSET (Machines \ {p}),
                packages \in LocalStates(Backends)} : p \in Machines}

\* main() run without --update, once, on such a Registry file.
DanglingInit ==
    /\ pc = "start"
    /\ present = Backends
    /\ latency = None
    /\ new_latency = None
    /\ base_timeout = 0
    /\ retry_timeout = 0
    /\ idx = 1
    /\ results = <<>>
    /\ timeout_failures = <<>>
    /\ ret = None
    /\ summary = None
    /\ calls = <<>>
    /\ config \in DanglingConfigs
    /\ machine_name = None
    /\ make_primary = FALSE
    /\ current_packages = NoInventory
    /\ installed = NoInventory
    /\ actions = <<>>
    /\ changes_made = FALSE
    /\ side_effects = {}
    /\ sync_status = "none"
    /\ syncs = MaxSyncs - 1
    /\ NoProbeRun
    /\ NoLoadRun

DanglingSpec == DanglingInit /\ [][SyncNext]_vars

\* update_all_packages and sync_packages have not been called.
NoUpdateRun ==
    /\ pc = "start"
    /\ present = Backends
    /\ latency = None
    /\ new_latency = None
    /\ base_timeout = 0
    /\ retry_timeout = 0
    /\ idx = 1
    /\ results = <<>>
    /\ timeout_failures = <<>>
    /\ ret = None
    /\ summary = None
    /\ calls = <<>>

NoSyncRun ==
    /\ config = EmptyConfig
    /\ machine_name = None
    /\ make_primary = FALSE
    /\ current_packages = NoInventory
    /\ installed = NoInventory
    /\ actions = <<>>
    /\ changes_made = FALSE
    /\ side_effects = {}
    /\ sync_status = "none"
    /\ syncs = 0

\* check_internet_connection() called once, whatever the three pings do.
ProbeInit ==
    /\ NoUpdateRun
    /\ NoSyncRun
    /\ NoLoadRun
    /\ pinged \in AllPings
    /\ probe = None

ProbeNext == CheckInternetConnection

ProbeSpec == ProbeInit /\ [][ProbeNext]_vars

\* The Registry files a run can find at CONFIG_PATH that parse: the empty
\* Registry, one with a primary and its record, one whose primary has no
\* record.
RegistryFiles ==
    {EmptyConfig} \cup DanglingConfigs
    \cup {[primary_machine |-> Some(p),
           machines |-> [n \in {p} |-> sets_to_lists(packages)]] :
              p \in Machines, packages \in LocalStates(Backends)}

\* load_config() called once on whatever is at CONFIG_PATH, with or without
\* a backup left by an earlier run.
LoadInit ==
    /\ NoUpdateRun
    /\ NoSyncRun
    /\ NoProbeRun
    /\ config_file \in {Absent} \cup {JsonFile(c) : c \in RegistryFiles}
                        \cup {Malformed(t) : t \in MalformedTexts}
    /\ backup_file \in {Absent, Malformed("")}
    /\ loaded = NotLoaded

LoadNext == LoadConfig

LoadSpec == LoadInit /\ [][LoadNext]_vars

\* update_all_packages under the assumption that every probe and every
\* upgrade call returns or is terminated: the run always takes its next step.
LiveSpec == Init /\ [][Next]_vars /\ WF_vars(Next)
=============================================================================
